---- MODULE Spec2Model ----
(***************************************************************************)
(* Model of agents/orchestrator_agent.py: the MemoryManager (bounded       *)
(* interaction log with compaction and lexical retrieval) and the          *)
(* IntelligentRouter (multi-criteria backend scoring).                     *)
(*                                                                         *)
(* Text is a sequence of one-character strings, so that lower-casing,      *)
(* whitespace splitting and substring search are computed, not assumed.    *)
(* Scores are fixed-point integers: a score s of the code is s*1000 here,  *)
(* a weight w is w*10, a cost per token c is c*100000.                     *)
(***************************************************************************)
EXTENDS Integers, Sequences, FiniteSets, TLC

\* ------------------------------------------------------------------ bounds
MaxM == 3            \* largest configured max_memory_size
MaxCT == 2           \* largest configured compression_threshold
MaxAppends == 4      \* add_interaction calls in one behaviour
MaxItems == 2        \* largest max_items given to retrieve_relevant_context
MaxList == 2         \* longest local_models / cloud_models list
MaxWeightSteps == 2  \* preference weights range over 0, 0.5, .., in this many steps
MaxConcCalls == 3    \* add_interaction calls of the concurrent callers together
MaxFolded == 2       \* interactions in a prefix handed to _create_summary
MaxPolls == 2        \* connection attempts of wait_for_service before its timeout
MaxLines == 2        \* lines of the .env file before the first setup_environment
MaxRuns == 2         \* setup_environment calls on the same file

None == "None"       \* Python's None

\* -------------------------------------------------------------------- text
\* str.lower() on the characters the queries use
Lower(c) ==
    CASE c = "A" -> "a"
      [] c = "B" -> "b"
      [] c = "C" -> "c"
      [] c = "D" -> "d"
      [] OTHER -> c

LowerStr(s) == [i \in 1..Len(s) |-> Lower(s[i])]

IsSpace(c) == c \in {" ", "\t", "\n"}

\* str.split() without arguments: runs of whitespace separate the words,
\* empty words are dropped
RECURSIVE SplitFrom(_, _, _)
SplitFrom(s, cur, acc) ==
    IF s = <<>>
    THEN IF cur = <<>> THEN acc ELSE Append(acc, cur)
    ELSE IF IsSpace(Head(s))
         THEN SplitFrom(Tail(s), <<>>, IF cur = <<>> THEN acc ELSE Append(acc, cur))
         ELSE SplitFrom(Tail(s), Append(cur, Head(s)), acc)

Split(s) == SplitFrom(s, <<>>, <<>>)

Range(f) == {f[i] : i \in DOMAIN f}

Max(a, b) == IF a > b THEN a ELSE b

\* set(text.lower().split())
WordSet(s) == Range(Split(LowerStr(s)))

\* dict.get(key, default)
DictGet(d, k, default) == IF k \in DOMAIN d THEN d[k] ELSE default

\* seq[i:] and seq[:j] with Python's index normalisation
PyIndex(s, i) ==
    IF i < 0
    THEN (IF Len(s) + i < 0 THEN 0 ELSE Len(s) + i)
    ELSE (IF i > Len(s) THEN Len(s) ELSE i)

SliceFrom(s, i) == SubSeq(s, PyIndex(s, i) + 1, Len(s))
SliceTo(s, j) == SubSeq(s, 1, PyIndex(s, j))

\* the queries the callers send
QA == <<"a">>
QB == <<"A", " ", "b">>
QC == <<"c", "\t", " ">>
QDebug == <<"D", "e", "b", "u", "g">>
QDebugB == <<"d", "e", "b", "u", "g", " ", " ", "B">>
StoredQueries == {QB, QDebug}
AskedQueries == {QA, QC, QDebugB}

\* (model, cost) pairs a caller passes as metadata
Metas == { [model |-> "llama3.1:8b", cost |-> 0],
           [model |-> "gpt-4o-mini", cost |-> 3] }

VARIABLES
    memory,                \* MemoryBank.memory of memory_manager.memory_bank
    compression_threshold, \* MemoryManager.compression_threshold
    max_memory_size,       \* MemoryManager.max_memory_size
    clock,                 \* number of add_interaction calls made so far
    appended,              \* history: every interaction appended, in order
    pre,                   \* history: the log of the last add_interaction
                           \* after its append, before it compacts
    local_models,          \* IntelligentRouter.local_models
    cloud_models,          \* IntelligentRouter.cloud_models
    op,                    \* name of the last operation that returned
    result,                \* what that operation returned
    threads,               \* concurrent callers: position and local variables
    banks,                 \* every MemoryBank created, in the order they were
                           \* assigned to memory_bank; the last one is current
    hist,                  \* history: what summaries folded, the log at rest
    run,                   \* a run of start_services.py: arguments, position,
                           \* commands run, exit code
    env_file               \* the .env file of the ServiceManager

vars == <<memory, compression_threshold, max_memory_size, clock, appended,
          pre, local_models, cloud_models, op, result, threads, banks, hist,
          run, env_file>>

concVars == <<threads, banks, hist>>

svcVars == <<run, env_file>>

\* ---------------------------------------------------------- MemoryManager
Msg(content, role) == [content |-> content, role |-> role]

\* the dict add_interaction builds from its arguments
Interaction(query, response, metadata) ==
    [query |-> query,
     response |-> response,
     timestamp |-> DictGet(metadata, "timestamp", None),
     model_used |-> DictGet(metadata, "model", None),
     cost |-> DictGet(metadata, "cost", 0),
     latency |-> DictGet(metadata, "latency", 0)]

RECURSIVE SumCost(_)
SumCost(memories) ==
    IF memories = <<>> THEN 0
    ELSE DictGet(Head(memories).content, "cost", 0) + SumCost(Tail(memories))

\* the words of length > 4 of the folded entries' queries
Topics(memories) ==
    UNION { {w \in WordSet(DictGet(memories[i].content, "query", <<>>)) : Len(w) > 4}
            : i \in DOMAIN memories }

\* list(topics)[:10]: a set has no defined iteration order
TopicLists(topics) ==
    LET n == Cardinality(topics)
        k == IF n > 10 THEN 10 ELSE n
    IN { SubSeq(f, 1, k) : f \in {g \in [1..n -> topics] :
                                    \A i, j \in 1..n : g[i] = g[j] => i = j} }

\* _create_summary, given the order the topic set iterates in
CreateSummary(memories, topic_list) ==
    [type |-> "compressed_summary",
     period |-> Len(memories),
     total_cost |-> SumCost(memories),
     main_topics |-> topic_list,
     compressed_at |-> "timestamp_here"]

\* variant: one entry too many is retained
RecentMemories_extra(mem, ct) == SliceFrom(mem, -(ct + 1))

\* the retained and the folded part of the log
RecentMemories(mem, ct) == SliceFrom(mem, -ct)
OldMemories(mem, ct) == SliceTo(mem, -ct)

\* variant: the whole log is re-added after the summary
CompressMemory_nofold(mem, ct, topic_list) ==
    IF Len(mem) > ct
    THEN <<Msg(CreateSummary(OldMemories(mem, ct), topic_list), "summary")>> \o mem
    ELSE mem

\* variant: the memory bank is not reset before the summary is added
CompressMemory_noreset(mem, ct, topic_list) ==
    IF Len(mem) > ct
    THEN mem \o <<Msg(CreateSummary(OldMemories(mem, ct), topic_list), "summary")>>
         \o RecentMemories(mem, ct)
    ELSE mem

\* _compress_memory
CompressMemory(mem, ct, topic_list) ==
    IF Len(mem) > ct
    THEN <<Msg(CreateSummary(OldMemories(mem, ct), topic_list), "summary")>>
         \o RecentMemories(mem, ct)
    ELSE mem

\* variant: the trigger fires one entry late
NeedsCompression_late(mem, max_size) == Len(mem) > max_size + 1

\* does add_interaction call _compress_memory on this log
NeedsCompression(mem, max_size) == Len(mem) > max_size

\* the log add_interaction leaves, given the order the topic set iterates in
LogAfterAdd(mem, interaction, topic_list) ==
    LET mem1 == Append(mem, Msg(interaction, "memory"))
    IN IF NeedsCompression(mem1, max_memory_size)
       THEN CompressMemory(mem1, compression_threshold, topic_list)
       ELSE mem1

AddInteraction(query, response, metadata) ==
    /\ UNCHANGED <<concVars, svcVars>>
    /\ clock < MaxAppends
    /\ LET interaction == Interaction(query, response, metadata)
           mem1 == Append(memory, Msg(interaction, "memory"))
       IN /\ \E tl \in TopicLists(Topics(OldMemories(mem1, compression_threshold))) :
                memory' = LogAfterAdd(memory, interaction, tl)
          /\ appended' = Append(appended, interaction)
          /\ pre' = mem1
    /\ clock' = clock + 1
    /\ op' = "add_interaction"
    /\ result' = None
    /\ UNCHANGED <<compression_threshold, max_memory_size, local_models,
                   cloud_models>>

\* variant: a record is taken whatever its overlap
RECURSIVE ScanFrom_any(_, _, _, _, _)
ScanFrom_any(mem, i, items, query_words, max_items) ==
    IF i = 0 THEN items
    ELSE LET msg == mem[i]
             msg_words == WordSet(DictGet(msg.content, "query", <<>>))
             overlap == Cardinality(query_words \cap msg_words)
             items2 == IF msg.role = "summary"
                       THEN Append(items, msg.content)
                       ELSE IF overlap >= 0
                            THEN Append(items, msg.content)
                            ELSE items
         IN IF Len(items2) >= max_items
            THEN items2
            ELSE ScanFrom_any(mem, i - 1, items2, query_words, max_items)

\* variant: summaries go through the overlap test like records
RECURSIVE ScanFrom_nosummary(_, _, _, _, _)
ScanFrom_nosummary(mem, i, items, query_words, max_items) ==
    IF i = 0 THEN items
    ELSE LET msg == mem[i]
             msg_words == WordSet(DictGet(msg.content, "query", <<>>))
             overlap == Cardinality(query_words \cap msg_words)
             items2 == IF overlap > 0
                       THEN Append(items, msg.content)
                       ELSE items
         IN IF Len(items2) >= max_items
            THEN items2
            ELSE ScanFrom_nosummary(mem, i - 1, items2, query_words, max_items)

\* retrieve_relevant_context: the loop over reversed(memory), from index i down
RECURSIVE ScanFrom(_, _, _, _, _)
ScanFrom(mem, i, items, query_words, max_items) ==
    IF i = 0 THEN items
    ELSE LET msg == mem[i]
             msg_words == WordSet(DictGet(msg.content, "query", <<>>))
             overlap == Cardinality(query_words \cap msg_words)
             items2 == IF msg.role = "summary"
                       THEN Append(items, msg.content)
                       ELSE IF overlap > 0
                            THEN Append(items, msg.content)
                            ELSE items
         IN IF Len(items2) >= max_items
            THEN items2
            ELSE ScanFrom(mem, i - 1, items2, query_words, max_items)

\* the entries retrieve_relevant_context joins with "\n", in order
RelevantItems(mem, query, max_items) ==
    ScanFrom(mem, Len(mem), <<>>, WordSet(query), max_items)

RetrieveRelevantContext(query, max_items) ==
    /\ UNCHANGED <<concVars, svcVars>>
    /\ op' = "retrieve_relevant_context"
    /\ result' = [query |-> query, max_items |-> max_items,
                  items |-> RelevantItems(memory, query, max_items)]
    /\ UNCHANGED <<memory, compression_threshold, max_memory_size, clock,
                   appended, pre, local_models, cloud_models>>


\* ------------------------------------------------------ IntelligentRouter
\* model_info, in the order the dict is written (the order .items() yields);
\* cost_per_token is in units of 0.00001
ModelNames == <<"llama3.1:8b", "llama3.1:70b", "codellama:13b", "gpt-4o-mini", "gpt-4o">>

ModelInfo ==
    [name \in Range(ModelNames) |->
        CASE name = "llama3.1:8b" ->
               [cost_per_token |-> 0, avg_latency |-> 50,
                capabilities |-> {"general", "reasoning"}, max_context |-> 128000]
          [] name = "llama3.1:70b" ->
               [cost_per_token |-> 0, avg_latency |-> 200,
                capabilities |-> {"general", "reasoning", "complex"},
                max_context |-> 128000]
          [] name = "codellama:13b" ->
               [cost_per_token |-> 0, avg_latency |-> 100,
                capabilities |-> {"code", "programming"}, max_context |-> 16000]
          [] name = "gpt-4o-mini" ->
               [cost_per_token |-> 15, avg_latency |-> 800,
                capabilities |-> {"general", "reasoning", "complex", "multimodal"},
                max_context |-> 128000]
          [] name = "gpt-4o" ->
               [cost_per_token |-> 500, avg_latency |-> 1200,
                capabilities |-> {"general", "reasoning", "complex", "multimodal",
                                  "advanced"},
                max_context |-> 128000]]

ReasoningKeywords ==
    { <<"a", "n", "a", "l", "y", "z", "e">>,
      <<"c", "o", "m", "p", "a", "r", "e">>,
      <<"e", "v", "a", "l", "u", "a", "t", "e">>,
      <<"e", "x", "p", "l", "a", "i", "n", " ", "w", "h", "y">>,
      <<"r", "e", "a", "s", "o", "n", "i", "n", "g">>,
      <<"l", "o", "g", "i", "c">> }

CodeKeywords ==
    { <<"c", "o", "d", "e">>,
      <<"p", "r", "o", "g", "r", "a", "m", "m", "i", "n", "g">>,
      <<"f", "u", "n", "c", "t", "i", "o", "n">>,
      <<"a", "l", "g", "o", "r", "i", "t", "h", "m">>,
      <<"d", "e", "b", "u", "g">>,
      <<"i", "m", "p", "l", "e", "m", "e", "n", "t">> }

MultimodalKeywords ==
    { <<"i", "m", "a", "g", "e">>,
      <<"p", "i", "c", "t", "u", "r", "e">>,
      <<"v", "i", "s", "u", "a", "l">>,
      <<"d", "i", "a", "g", "r", "a", "m">>,
      <<"c", "h", "a", "r", "t">> }

MathKeywords ==
    { <<"c", "a", "l", "c", "u", "l", "a", "t", "e">>,
      <<"e", "q", "u", "a", "t", "i", "o", "n">>,
      <<"f", "o", "r", "m", "u", "l", "a">>,
      <<"m", "a", "t", "h", "e", "m", "a", "t", "i", "c", "s">>,
      <<"s", "t", "a", "t", "i", "s", "t", "i", "c", "s">> }

\* keyword in text
Contains(text, keyword) ==
    \E i \in 0..(Len(text) - Len(keyword)) :
        SubSeq(text, i + 1, i + Len(keyword)) = keyword

AnyKeyword(text, keywords) == \E k \in keywords : Contains(text, k)

Min(a, b) == IF a < b THEN a ELSE b

LongQuery == 500     \* len(query) above which the length counts as complexity

\* analyze_query_complexity; the scores are in tenths
AnalyzeQueryComplexity(query) ==
    LET query_lower == LowerStr(query)
        by_length == IF Len(query) > LongQuery THEN 2 ELSE 0
        by_reasoning == IF AnyKeyword(query_lower, ReasoningKeywords) THEN 3 ELSE 0
        complexity_score == by_length + by_reasoning
    IN [general_complexity |-> Min(complexity_score, 10),
        code_requirement |-> IF AnyKeyword(query_lower, CodeKeywords) THEN 5 ELSE 0,
        multimodal_requirement |->
            IF AnyKeyword(query_lower, MultimodalKeywords) THEN 8 ELSE 0,
        math_requirement |-> IF AnyKeyword(query_lower, MathKeywords) THEN 4 ELSE 0]

\* the user_preferences argument left out (Python's None, written as a map so
\* that it compares with the maps)
NoPreferences == [is_none |-> TRUE]
EmptyDict == [k \in {} |-> 0]

\* user_preferences or {}
UserPrefs(user_preferences) ==
    IF user_preferences = NoPreferences \/ DOMAIN user_preferences = {}
    THEN EmptyDict
    ELSE user_preferences

\* the three weights, in tenths
CostWeight(user_prefs) == DictGet(user_prefs, "cost_priority", 7)
SpeedWeight(user_prefs) == DictGet(user_prefs, "speed_priority", 2)
QualityWeight(user_prefs) == DictGet(user_prefs, "quality_priority", 1)

\* the availability test of the loop
Available(model, local, cloud) == model \in Range(local) \/ model \in Range(cloud)

\* variant: the cost term is added where it is to be subtracted
CostScore_plus(info) ==
    IF info.cost_per_token = 0 THEN 1000
    ELSE Max(0, 1000 + info.cost_per_token * 10)

\* the three component scores of one profile, in thousandths
CostScore(info) ==
    IF info.cost_per_token = 0 THEN 1000
    ELSE Max(0, 1000 - info.cost_per_token * 10)

SpeedScore(info) == Max(0, 1000 - (info.avg_latency * 1000) \div 2000)

\* variant: the multimodal boost is given on the keyword alone
QualityScore_nocap(info, analysis) ==
    500 + (IF analysis.code_requirement > 5 /\ "code" \in info.capabilities
           THEN 300
           ELSE IF analysis.multimodal_requirement > 5
                THEN 400
                ELSE IF analysis.general_complexity > 7
                        /\ "complex" \in info.capabilities
                     THEN 300
                     ELSE 0)

\* variant: the code boost is given from a requirement of 0.5 on
QualityScore_atleast(info, analysis) ==
    500 + (IF analysis.code_requirement >= 5 /\ "code" \in info.capabilities
           THEN 300
           ELSE IF analysis.multimodal_requirement > 5
                   /\ "multimodal" \in info.capabilities
                THEN 400
                ELSE IF analysis.general_complexity > 7
                        /\ "complex" \in info.capabilities
                     THEN 300
                     ELSE 0)

QualityScore(info, analysis) ==
    500 + (IF analysis.code_requirement > 5 /\ "code" \in info.capabilities
           THEN 300
           ELSE IF analysis.multimodal_requirement > 5
                   /\ "multimodal" \in info.capabilities
                THEN 400
                ELSE IF analysis.general_complexity > 7
                        /\ "complex" \in info.capabilities
                     THEN 300
                     ELSE 0)

\* score of one profile, in units of 0.0001
Score(info, analysis, user_prefs) ==
    CostScore(info) * CostWeight(user_prefs)
    + SpeedScore(info) * SpeedWeight(user_prefs)
    + QualityScore(info, analysis) * QualityWeight(user_prefs)

\* the four parts of the reasoning of a scored profile
ReasoningParts(info, analysis, user_prefs) ==
    << <<"Cost score", CostScore(info)>>,
       <<"Speed score", SpeedScore(info)>>,
       <<"Quality score", QualityScore(info, analysis)>>,
       <<"Total score", Score(info, analysis, user_prefs)>> >>

\* variant: a profile replaces the best one on an equal score too
RECURSIVE BestFrom_lastwins(_, _, _, _, _, _)
BestFrom_lastwins(i, best, analysis, user_prefs, local, cloud) ==
    IF i > Len(ModelNames) THEN best
    ELSE LET model == ModelNames[i]
             info == ModelInfo[model]
             score == Score(info, analysis, user_prefs)
             best2 == IF Available(model, local, cloud) /\ score >= best.best_score
                      THEN [best_model |-> model, best_score |-> score,
                            reasoning_parts |->
                                ReasoningParts(info, analysis, user_prefs)]
                      ELSE best
         IN BestFrom_lastwins(i + 1, best2, analysis, user_prefs, local, cloud)

\* the loop over model_info.items(), from position i, carrying
\* (best_model, best_score, reasoning_parts)
RECURSIVE BestFrom(_, _, _, _, _, _)
BestFrom(i, best, analysis, user_prefs, local, cloud) ==
    IF i > Len(ModelNames) THEN best
    ELSE LET model == ModelNames[i]
             info == ModelInfo[model]
             score == Score(info, analysis, user_prefs)
             best2 == IF Available(model, local, cloud) /\ score > best.best_score
                      THEN [best_model |-> model, best_score |-> score,
                            reasoning_parts |->
                                ReasoningParts(info, analysis, user_prefs)]
                      ELSE best
         IN BestFrom(i + 1, best2, analysis, user_prefs, local, cloud)

\* seq[i], which raises IndexError outside the list
ListItem(seq, i) ==
    IF i + 1 \in DOMAIN seq
    THEN [ok |-> TRUE, val |-> seq[i + 1]]
    ELSE [ok |-> FALSE, val |-> "IndexError"]

\* variant: the first local model is taken without testing the list
FallbackModel_unguarded(local) == ListItem(local, 0)

\* variant: the fallback is the fixed default whatever the local list holds
FallbackModel_default(local) == [ok |-> TRUE, val |-> "gpt-4o-mini"]

\* self.local_models[0] if self.local_models else 'gpt-4o-mini'
FallbackModel(local) ==
    IF local # <<>> THEN ListItem(local, 0) ELSE [ok |-> TRUE, val |-> "gpt-4o-mini"]

\* self.model_info.get(best_model, {}).get(key, default)
InfoGet(model, key, default) ==
    IF model \in DOMAIN ModelInfo THEN DictGet(ModelInfo[model], key, default)
    ELSE default

\* what route_query returns, or the exception it raises
RouteOutcome(query, user_preferences, local, cloud) ==
    LET analysis == AnalyzeQueryComplexity(query)
        user_prefs == UserPrefs(user_preferences)
        start == [best_model |-> None, best_score |-> -10000,
                  reasoning_parts |-> <<>>]
        best == BestFrom(1, start, analysis, user_prefs, local, cloud)
        fallback == FallbackModel(local)
    IN IF best.best_model = None /\ ~fallback.ok
       THEN [raised |-> fallback.val]
       ELSE LET best_model == IF best.best_model = None THEN fallback.val
                              ELSE best.best_model
                reasoning == IF best.best_model = None
                             THEN << <<"Fallback to default model", 0>> >>
                             ELSE best.reasoning_parts
            IN [raised |-> None,
                model |-> best_model,
                reasoning |-> reasoning,
                confidence |-> best.best_score,
                estimated_cost |->
                    InfoGet(best_model, "cost_per_token", 0) * Len(Split(query)),
                estimated_latency |-> InfoGet(best_model, "avg_latency", 1000)]

RouteQuery(query, user_preferences) ==
    /\ UNCHANGED <<concVars, svcVars>>
    /\ op' = "route_query"
    /\ result' = [query |-> query, user_preferences |-> user_preferences,
                  outcome |-> RouteOutcome(query, user_preferences,
                                           local_models, cloud_models)]
    /\ UNCHANGED <<memory, compression_threshold, max_memory_size, clock,
                   appended, pre, local_models, cloud_models>>

\* ------------------------------------------------------ OrchestratorAgent
\* the loop of get_stats over memory, from index i, carrying
\* (total_interactions, total_cost, model_usage)
RECURSIVE StatsFrom(_, _, _)
StatsFrom(mem, i, acc) ==
    IF i > Len(mem) THEN acc
    ELSE LET msg == mem[i]
             data == msg.content
             model == DictGet(data, "model_used", "unknown")
             acc2 == IF msg.role = "memory"
                     THEN [total_interactions |-> acc.total_interactions + 1,
                           total_cost |-> acc.total_cost + DictGet(data, "cost", 0),
                           model_usage |->
                               [m \in DOMAIN acc.model_usage \cup {model} |->
                                   IF m = model
                                   THEN DictGet(acc.model_usage, model, 0) + 1
                                   ELSE acc.model_usage[m]]]
                     ELSE acc
         IN StatsFrom(mem, i + 1, acc2)

\* the dict get_stats returns
Stats(mem, local, cloud) ==
    LET acc == StatsFrom(mem, 1, [total_interactions |-> 0, total_cost |-> 0,
                                  model_usage |-> EmptyDict])
    IN [total_interactions |-> acc.total_interactions,
        total_cost |-> acc.total_cost,
        model_usage |-> acc.model_usage,
        memory_size |-> Len(mem),
        available_models |-> [local |-> local, cloud |-> cloud]]

GetStats ==
    /\ UNCHANGED <<concVars, svcVars>>
    /\ op' = "get_stats"
    /\ result' = Stats(memory, local_models, cloud_models)
    /\ UNCHANGED <<memory, compression_threshold, max_memory_size, clock,
                   appended, pre, local_models, cloud_models>>

\* _execute_query: the simulated response, built from the decision
ExecuteQuery(query, routing_decision, context) ==
    [routed_to |-> routing_decision.model,
     response_to |-> query,
     reasoning |-> routing_decision.reasoning,
     estimated_cost |-> routing_decision.estimated_cost,
     estimated_latency |-> routing_decision.estimated_latency]

\* variant: the cost of the decision is not passed on
ReplyMetadata_nocost(start_time, routing_decision, latency) ==
    [timestamp |-> start_time,
     model |-> routing_decision.model,
     latency |-> latency,
     routing_reasoning |-> routing_decision.reasoning]

\* the metadata reply builds for add_interaction
ReplyMetadata(start_time, routing_decision, latency) ==
    [timestamp |-> start_time,
     model |-> routing_decision.model,
     cost |-> routing_decision.estimated_cost,
     latency |-> latency,
     routing_reasoning |-> routing_decision.reasoning]

\* variant: the interaction is stored before the query is executed
ReplySteps_storefirst == <<"retrieve", "route", "append", "execute">>

\* the calls of reply, in the order of its statements
ReplySteps == <<"retrieve", "route", "execute", "append">>

NoDecision ==
    [raised |-> None, model |-> None, reasoning |-> <<>>, confidence |-> 0,
     estimated_cost |-> 0, estimated_latency |-> 0]

NoResponse ==
    [routed_to |-> None, response_to |-> <<>>, reasoning |-> <<>>,
     estimated_cost |-> 0, estimated_latency |-> 0]

\* one call of reply on frame st; execution_ok and topic_list are what the
\* model backend and the set iteration order turn out to be
ReplyStep(step, st, execution_ok, topic_list) ==
    CASE step = "retrieve" ->
           [st EXCEPT !.context = RelevantItems(st.memory, st.query, 5),
                      !.trace = Append(st.trace, step)]
      [] step = "route" ->
           LET d == RouteOutcome(st.query, NoPreferences, local_models, cloud_models)
           IN IF d.raised # None
              THEN [st EXCEPT !.raised = d.raised]
              ELSE [st EXCEPT !.routing_decision = d,
                              !.trace = Append(st.trace, step)]
      [] step = "execute" ->
           IF execution_ok
           THEN [st EXCEPT !.response =
                              ExecuteQuery(st.query, st.routing_decision, st.context),
                           !.trace = Append(st.trace, step)]
           ELSE [st EXCEPT !.raised = "ExecutionError"]
      [] step = "append" ->
           LET metadata == ReplyMetadata(st.start_time, st.routing_decision, 1)
               interaction == Interaction(st.query, st.response, metadata)
           IN [st EXCEPT !.memory = LogAfterAdd(st.memory, interaction, topic_list),
                         !.pre = Append(st.memory, Msg(interaction, "memory")),
                         !.appended = Append(st.appended, interaction),
                         !.metadata = metadata,
                         !.trace = Append(st.trace, step)]

\* the statements of reply from position i on; an exception ends the call
RECURSIVE ReplyFrom(_, _, _, _)
ReplyFrom(i, st, execution_ok, topic_list) ==
    IF i > Len(ReplySteps) \/ st.raised # None THEN st
    ELSE ReplyFrom(i + 1, ReplyStep(ReplySteps[i], st, execution_ok, topic_list),
                   execution_ok, topic_list)

Reply(query, execution_ok) ==
    /\ UNCHANGED <<concVars, svcVars>>
    /\ clock < MaxAppends
    /\ LET frame == [query |-> query, start_time |-> clock + 1,
                     memory |-> memory, appended |-> appended, pre |-> pre,
                     context |-> <<>>, routing_decision |-> NoDecision,
                     response |-> NoResponse, metadata |-> EmptyDict,
                     trace |-> <<>>, raised |-> None]
       IN \E tl \in TopicLists(Topics(OldMemories(
                        Append(memory, Msg(NoResponse, "memory")),
                        compression_threshold))) :
            LET end == ReplyFrom(1, frame, execution_ok, tl)
            IN /\ memory' = end.memory
               /\ appended' = end.appended
               /\ pre' = end.pre
               /\ result' = [query |-> query,
                             execution_ok |-> execution_ok,
                             raised |-> end.raised,
                             content |-> end.response,
                             metadata |-> end.metadata,
                             context |-> end.context,
                             routing_decision |-> end.routing_decision,
                             trace |-> end.trace,
                             memory_before |-> memory,
                             appended_before |-> appended]
               /\ clock' = Len(end.appended)
    /\ op' = "reply"
    /\ UNCHANGED <<compression_threshold, max_memory_size, local_models,
                   cloud_models>>

\* ------------------------------------------- MemoryManager, concurrently
\* Two callers of add_interaction and one caller of retrieve_relevant_context
\* share one MemoryManager.  The code takes no lock, so the callers interleave
\* between the statements of add_interaction, _compress_memory and
\* retrieve_relevant_context; a statement is one step.  A list object only
\* grows, so the loop over reversed(memory) sees the list as it is when the
\* loop starts.
Writers == {"w1", "w2"}
Reader == "r"

WriterIdle ==
    [pc |-> "idle", calls |-> 0, interaction |-> EmptyDict, memref |-> 0,
     recent_memories |-> <<>>, summary |-> EmptyDict, folds |-> {}, idx |-> 0]

ReaderIdle ==
    [pc |-> "idle", query |-> <<>>, max_items |-> 0, memref |-> 0,
     scanned |-> <<>>, items |-> <<>>, rests |-> {}, closed |-> FALSE]

CurrentBank(bs) == bs[Len(bs)]

\* the call of writer t returns: its locals are gone
Returned(t) == [threads EXCEPT ![t] = [WriterIdle EXCEPT !.calls = threads[t].calls]]

AddToCurrent(bs, msg) == [bs EXCEPT ![Len(bs)] = Append(@, msg)]

\* no add_interaction call is under way
AtRest(th) == \A w \in Writers : th[w].pc = "idle"

\* history: a retrieve call collects the logs that stand at rest from the
\* last rest before the call to the first rest after its scan
Settle(th, bs) ==
    IF AtRest(th) /\ th[Reader].pc # "idle" /\ ~th[Reader].closed
    THEN [th EXCEPT ![Reader].rests = @ \cup {CurrentBank(bs)},
                    ![Reader].closed = (th[Reader].pc = "done")]
    ELSE th

\* a list that neither the manager nor a running call refers to is collected
Live(th, bs) ==
    [i \in DOMAIN bs |->
        IF \/ i = Len(bs)
           \/ \E t \in Writers \cup {Reader} :
                 th[t].memref = i /\ th[t].pc \notin {"idle", "done"}
        THEN bs[i] ELSE <<>>]

\* the state after a step that leaves threads th and banks bs
Commit(th, bs, appended2, folded2, clock2) ==
    /\ threads' = Settle(th, bs)
    /\ banks' = Live(th, bs)
    /\ memory' = CurrentBank(bs)
    /\ appended' = appended2
    /\ hist' = [folded |-> folded2,
                stable |-> IF AtRest(th) THEN CurrentBank(bs) ELSE hist.stable]
    /\ clock' = clock2
    /\ UNCHANGED <<compression_threshold, max_memory_size, pre, local_models,
                   cloud_models, op, result, svcVars>>

\* the runs explored: two callers of add_interaction, or one of them and a
\* caller of retrieve_relevant_context
SecondWriterActive == \E w \in Writers \ {"w1"} : threads[w].calls > 0

\* add_interaction is called: the interaction dict is built
WCall(t, query, metadata) ==
    /\ threads[t].pc = "idle"
    /\ clock < MaxConcCalls
    /\ t # "w1" => threads[Reader].pc = "idle"
    /\ Commit([threads EXCEPT ![t].pc = "add",
                              ![t].calls = @ + 1,
                              ![t].interaction =
                                  Interaction(query, <<"o", "k">>, metadata)],
              banks, appended, hist.folded, clock + 1)

\* self.memory_bank.add(Msg(...))
WAdd(t) ==
    /\ threads[t].pc = "add"
    /\ Commit([threads EXCEPT ![t].pc = "check"],
              AddToCurrent(banks, Msg(threads[t].interaction, "memory")),
              Append(appended, threads[t].interaction), hist.folded, clock)

\* if len(self.memory_bank.get_memory()) > self.max_memory_size
WCheck(t) ==
    /\ threads[t].pc = "check"
    /\ Commit(IF NeedsCompression(CurrentBank(banks), max_memory_size)
              THEN [threads EXCEPT ![t].pc = "get"] ELSE Returned(t),
              banks, appended, hist.folded, clock)

\* memory = self.memory_bank.get_memory()
WGet(t) ==
    /\ threads[t].pc = "get"
    /\ Commit([threads EXCEPT ![t].pc = "test", ![t].memref = Len(banks)],
              banks, appended, hist.folded, clock)

\* if len(memory) > self.compression_threshold
WTest(t) ==
    /\ threads[t].pc = "test"
    /\ Commit(IF Len(banks[threads[t].memref]) > compression_threshold
              THEN [threads EXCEPT ![t].pc = "recent"] ELSE Returned(t),
              banks, appended, hist.folded, clock)

\* recent_memories = memory[-self.compression_threshold:]
WRecent(t) ==
    /\ threads[t].pc = "recent"
    /\ Commit([threads EXCEPT ![t].pc = "old",
                              ![t].recent_memories =
                                  RecentMemories(banks[threads[t].memref],
                                                 compression_threshold)],
              banks, appended, hist.folded, clock)

\* old_memories = memory[:-self.compression_threshold] and the summary of them
WOld(t) ==
    /\ threads[t].pc = "old"
    /\ LET old_memories == OldMemories(banks[threads[t].memref],
                                       compression_threshold)
       IN \E tl \in TopicLists(Topics(old_memories)) :
            Commit([threads EXCEPT ![t].pc = "reset",
                                   ![t].summary = CreateSummary(old_memories, tl),
                                   ![t].folds =
                                       {old_memories[i].content :
                                           i \in {j \in DOMAIN old_memories :
                                                    old_memories[j].role = "memory"}}],
                   banks, appended, hist.folded, clock)

\* self.memory_bank = MemoryBank()
WReset(t) ==
    /\ threads[t].pc = "reset"
    /\ Commit([threads EXCEPT ![t].pc = "addsummary"],
              Append(banks, <<>>), appended, hist.folded, clock)

\* self.memory_bank.add(Msg(content=summary, role="summary"))
WAddSummary(t) ==
    /\ threads[t].pc = "addsummary"
    /\ Commit([threads EXCEPT ![t].pc = "addrecent", ![t].idx = 1],
              AddToCurrent(banks, Msg(threads[t].summary, "summary")),
              appended, hist.folded \cup threads[t].folds, clock)

\* for msg in recent_memories: self.memory_bank.add(msg)
WAddRecent(t) ==
    /\ threads[t].pc = "addrecent"
    /\ IF threads[t].idx > Len(threads[t].recent_memories)
       THEN Commit(Returned(t), banks, appended, hist.folded, clock)
       ELSE Commit([threads EXCEPT ![t].idx = @ + 1],
                   AddToCurrent(banks,
                                threads[t].recent_memories[threads[t].idx]),
                   appended, hist.folded, clock)

\* retrieve_relevant_context is called
RCall(query, max_items) ==
    /\ threads[Reader].pc = "idle"
    /\ ~SecondWriterActive
    /\ Commit([threads EXCEPT ![Reader].pc = "get",
                              ![Reader].query = query,
                              ![Reader].max_items = max_items,
                              ![Reader].rests = {hist.stable}],
              banks, appended, hist.folded, clock)

\* memory = self.memory_bank.get_memory()
RGet ==
    /\ threads[Reader].pc = "get"
    /\ Commit([threads EXCEPT ![Reader].pc = "scan", ![Reader].memref = Len(banks)],
              banks, appended, hist.folded, clock)

\* for msg in reversed(memory): ... and the return
RScan ==
    /\ threads[Reader].pc = "scan"
    /\ LET seen == banks[threads[Reader].memref]
       IN Commit([threads EXCEPT
                     ![Reader].pc = "done",
                     ![Reader].scanned = seen,
                     ![Reader].items = RelevantItems(seen, threads[Reader].query,
                                                     threads[Reader].max_items)],
                 banks, appended, hist.folded, clock)

\* ---------------------------------------------------------- specification
Init ==
    /\ threads = <<>>
    /\ banks = <<>>
    /\ hist = <<>>
    /\ run = <<>>
    /\ env_file = <<>>
    /\ memory = <<>>
    /\ compression_threshold \in 0..MaxCT
    /\ max_memory_size \in 0..MaxM
    /\ clock = 0
    /\ appended = <<>>
    /\ pre = <<>>
    /\ local_models = <<"llama3.1:8b">>
    /\ cloud_models = <<"gpt-4o-mini">>
    /\ op = "init"
    /\ result = None

Next ==
    \/ \E q \in StoredQueries, m \in Metas :
          AddInteraction(q, <<"o", "k">>,
                         [timestamp |-> clock + 1, model |-> m.model,
                          cost |-> m.cost, latency |-> 1])
    \/ \E q \in AskedQueries, n \in 0..MaxItems : RetrieveRelevantContext(q, n)
    \/ GetStats

Spec == Init /\ [][Next]_vars

\* the router alone: every pair of availability lists, the log left empty
\* under the default memory configuration
SeqsUpTo(S, n) == UNION { [1..k -> S] : k \in 0..n }

LocalNames == {"llama3.1:8b", "codellama:13b", "unlisted-local"}
CloudNames == {"gpt-4o-mini", "gpt-4o", "llama3.1:70b", "unlisted-cloud"}

RQEmpty == <<>>
RQPlain == <<"W", "h", "a", "t", " ", "i", "s", " ", "2", "+", "2", "?">>
RQChart == <<"a", " ", "C", "h", "a", "r", "t">>
RQCompare == <<"c", "o", "m", "p", "a", "r", "e", " ", "c", "o", "d", "e">>
RoutedQueries == {RQEmpty, RQPlain, RQChart, RQCompare}

PrefChoices ==
    { NoPreferences,
      EmptyDict,
      [cost_priority |-> 0, speed_priority |-> 0, quality_priority |-> 0],
      [quality_priority |-> 10],
      [cost_priority |-> 0, speed_priority |-> 10],
      [cost_priority |-> 10, speed_priority |-> 0, quality_priority |-> 0],
      [cost_priority |-> 5, speed_priority |-> 5, quality_priority |-> 5] }

RouterInit ==
    /\ threads = <<>>
    /\ banks = <<>>
    /\ hist = <<>>
    /\ run = <<>>
    /\ env_file = <<>>
    /\ memory = <<>>
    /\ compression_threshold = 10
    /\ max_memory_size = 100
    /\ clock = 0
    /\ appended = <<>>
    /\ pre = <<>>
    /\ local_models \in SeqsUpTo(LocalNames, MaxList)
    /\ cloud_models \in SeqsUpTo(CloudNames, MaxList)
    /\ op = "init"
    /\ result = None

RouterNext == \E q \in RoutedQueries, p \in PrefChoices : RouteQuery(q, p)

RouterSpec == RouterInit /\ [][RouterNext]_vars

\* the memory manager shared by concurrent callers
ConcInit ==
    /\ memory = <<>>
    /\ compression_threshold = 1
    /\ max_memory_size = 1
    /\ clock = 0
    /\ appended = <<>>
    /\ pre = <<>>
    /\ local_models = <<"llama3.1:8b">>
    /\ cloud_models = <<"gpt-4o-mini">>
    /\ op = "init"
    /\ result = None
    /\ threads = [t \in Writers \cup {Reader} |->
                     IF t = Reader THEN ReaderIdle ELSE WriterIdle]
    /\ banks = << <<>> >>
    /\ hist = [folded |-> {}, stable |-> <<>>]
    /\ run = <<>>
    /\ env_file = <<>>

ConcNext ==
    \/ \E t \in Writers :
          \/ WCall(t, QB, [timestamp |-> clock + 1, model |-> "llama3.1:8b",
                           cost |-> 0, latency |-> 1])
          \/ WAdd(t)
          \/ WCheck(t)
          \/ WGet(t)
          \/ WTest(t)
          \/ WRecent(t)
          \/ WOld(t)
          \/ WReset(t)
          \/ WAddSummary(t)
          \/ WAddRecent(t)
    \/ RCall(QA, MaxItems)
    \/ RGet
    \/ RScan

ConcSpec == ConcInit /\ [][ConcNext]_vars

\* the coordinator: requests served one after the other, the execution of
\* each succeeding or failing
ReplyQueries == {QB, RQChart}

ReplyInit ==
    /\ threads = <<>>
    /\ banks = <<>>
    /\ hist = <<>>
    /\ run = <<>>
    /\ env_file = <<>>
    /\ memory = <<>>
    /\ compression_threshold \in 1..MaxCT
    /\ max_memory_size \in 1..MaxM
    /\ clock = 0
    /\ appended = <<>>
    /\ pre = <<>>
    /\ local_models \in {<<"llama3.1:8b">>, <<>>}
    /\ cloud_models = <<"gpt-4o-mini">>
    /\ op = "init"
    /\ result = None

ReplyNext == \E q \in ReplyQueries, ok \in BOOLEAN : Reply(q, ok)

ReplySpec == ReplyInit /\ [][ReplyNext]_vars

\* the scoring of the loop body alone, applied to two profiles of a catalog:
\* a zero-cost one and a paid one of the same latency
Profile(cost, latency, caps) ==
    [cost_per_token |-> cost, avg_latency |-> latency, capabilities |-> caps,
     max_context |-> 128000]

PairLatencies == {50, 1200}
PaidCosts == {15, 500}
PairCapabilities == { {"general"}, {"general", "complex", "multimodal"} }
WeightGrid == {5 * k : k \in 0..MaxWeightSteps}

ScoreProfiles(free, paid, query, user_prefs) ==
    /\ UNCHANGED <<concVars, svcVars>>
    /\ op' = "score_profiles"
    /\ result' = [free |-> free, paid |-> paid, query |-> query,
                  user_prefs |-> user_prefs,
                  total_free |-> Score(free, AnalyzeQueryComplexity(query), user_prefs),
                  total_paid |-> Score(paid, AnalyzeQueryComplexity(query), user_prefs)]
    /\ UNCHANGED <<memory, compression_threshold, max_memory_size, clock,
                   appended, pre, local_models, cloud_models>>

ScoreInit ==
    /\ threads = <<>>
    /\ banks = <<>>
    /\ hist = <<>>
    /\ run = <<>>
    /\ env_file = <<>>
    /\ memory = <<>>
    /\ compression_threshold = 10
    /\ max_memory_size = 100
    /\ clock = 0
    /\ appended = <<>>
    /\ pre = <<>>
    /\ local_models = <<"llama3.1:8b">>
    /\ cloud_models = <<"gpt-4o-mini">>
    /\ op = "init"
    /\ result = None

ScoreNext ==
    \E lat \in PairLatencies, c \in PaidCosts, caps \in PairCapabilities,
       q \in {RQPlain, RQChart}, cw \in WeightGrid, sw \in {0, 2}, qw \in {0, 1} :
        ScoreProfiles(Profile(0, lat, caps), Profile(c, lat, caps), q,
                      [cost_priority |-> cw, speed_priority |-> sw,
                       quality_priority |-> qw])

ScoreSpec == ScoreInit /\ [][ScoreNext]_vars

\* _create_summary on its own: the folded prefixes it is handed
TQDeltaAlpha == <<"D", "e", "l", "t", "a", " ", "a", "l", "p", "h", "a">>
TQAlphaDelta == <<"a", "l", "p", "h", "a", " ", "d", "e", "l", "t", "a">>
TQDebugAlpha == <<"d", "e", "b", "u", "g", " ", "A", "l", "p", "h", "a", " ", "i", "t">>
TopicQueries == {TQDeltaAlpha, TQAlphaDelta, TQDebugAlpha, QB}

\* a prefix is interactions, after the summary of an earlier compaction or not
TopicPrefixes ==
    LET records == { [i \in DOMAIN qs |->
                        Msg(Interaction(qs[i], <<"o", "k">>,
                                        [timestamp |-> i, model |-> "llama3.1:8b",
                                         cost |-> 0, latency |-> 1]), "memory")]
                     : qs \in SeqsUpTo(TopicQueries, MaxFolded) }
        prior == Msg(CreateSummary(<<>>, <<>>), "summary")
    IN records \cup { <<prior>> \o r : r \in records }

\* summary = self._create_summary(old_memories)
Summarize ==
    /\ \E tl \in TopicLists(Topics(memory)) : result' = CreateSummary(memory, tl)
    /\ op' = "_create_summary"
    /\ UNCHANGED <<memory, compression_threshold, max_memory_size, clock,
                   appended, pre, local_models, cloud_models, concVars,
                   svcVars>>

TopicInit ==
    /\ threads = <<>>
    /\ banks = <<>>
    /\ hist = <<>>
    /\ run = <<>>
    /\ env_file = <<>>
    /\ memory \in TopicPrefixes
    /\ compression_threshold = 10
    /\ max_memory_size = 100
    /\ clock = 0
    /\ appended = <<>>
    /\ pre = <<>>
    /\ local_models = <<"llama3.1:8b">>
    /\ cloud_models = <<"gpt-4o-mini">>
    /\ op = "init"
    /\ result = None

TopicNext == Summarize

TopicSpec == TopicInit /\ [][TopicNext]_vars

\* the quality score of one catalog profile for one query
QBDebug == <<"D", "e", "b", "u", "g", " ", "i", "t">>
QBDiagram == <<"e", "v", "a", "l", "u", "a", "t", "e", " ", "a", " ",
               "d", "i", "a", "g", "r", "a", "m">>
QBAll == <<"e", "x", "p", "l", "a", "i", "n", " ", "w", "h", "y", " ",
           "c", "o", "d", "e", " ", "a", " ", "C", "h", "a", "r", "t">>
QueryTexts == {RQEmpty, RQPlain, RQChart, RQCompare, QBDebug, QBDiagram, QBAll, QB}

\* the text filled up to n characters
Padded(text, n) ==
    [i \in 1..Max(n, Len(text)) |-> IF i <= Len(text) THEN text[i] ELSE "x"]

\* each text as it is, at the length limit, and one character above it
AnalyzedQueries ==
    QueryTexts \cup { Padded(t, n) : t \in QueryTexts, n \in {LongQuery, LongQuery + 1} }

\* one evaluation in each behaviour
ScoreQuality(query, model) ==
    /\ op = "init"
    /\ op' = "quality_score"
    /\ result' = [query |-> query, model |-> model,
                  analysis |-> AnalyzeQueryComplexity(query),
                  quality_score |->
                      QualityScore(ModelInfo[model], AnalyzeQueryComplexity(query))]
    /\ UNCHANGED <<memory, compression_threshold, max_memory_size, clock,
                   appended, pre, local_models, cloud_models, concVars,
                   svcVars>>

QualityInit ==
    /\ threads = <<>>
    /\ banks = <<>>
    /\ hist = <<>>
    /\ run = <<>>
    /\ env_file = <<>>
    /\ memory = <<>>
    /\ compression_threshold = 10
    /\ max_memory_size = 100
    /\ clock = 0
    /\ appended = <<>>
    /\ pre = <<>>
    /\ local_models = <<"llama3.1:8b">>
    /\ cloud_models = <<"gpt-4o-mini">>
    /\ op = "init"
    /\ result = None

QualityNext == \E q \in AnalyzedQueries, m \in Range(ModelNames) : ScoreQuality(q, m)

QualitySpec == QualityInit /\ [][QualityNext]_vars

\* ----------------------------------------- start_services.py: the start-up
\* compose_cmd of start_services
ComposeCmd(environment, gpu_profile) ==
    <<"docker", "compose">>
    \o (IF environment = "public" THEN <<"--profile", "public">> ELSE <<>>)
    \o (IF gpu_profile = "cpu"
        THEN <<"-f", "docker-compose.yml", "-f", "docker-compose.cpu.yml">>
        ELSE <<>>)

UpStep(service) == [kind |-> "up", service |-> service, name |-> None, port |-> 0]
WaitStep(name, port) == [kind |-> "wait", service |-> None, name |-> name, port |-> port]
OtherStep(kind) == [kind |-> kind, service |-> None, name |-> None, port |-> 0]

\* the statements of start_services, in order; the last `up` names no service
StartSteps ==
    << UpStep("supabase-db"), UpStep("qdrant"), UpStep("neo4j"),
       WaitStep("PostgreSQL", 5432), WaitStep("Qdrant", 6333),
       WaitStep("Neo4j", 7474),
       UpStep("ollama"), WaitStep("Ollama", 11434),
       OtherStep("pull_models"),
       UpStep(None),
       WaitStep("AgentScope Runtime", 8080), WaitStep("Open WebUI", 3000),
       WaitStep("n8n", 5678), WaitStep("Langfuse", 3001) >>

\* the try block of main
MainSteps(no_pull) ==
    (IF no_pull THEN <<>> ELSE <<OtherStep("pull_images")>>)
    \o StartSteps \o <<OtherStep("status")>>

Running == ~run.exited /\ run.pc <= Len(run.steps)

CurrentStep == run.steps[run.pc]

\* a subprocess.run(..., check=True): a non-zero return code raises
\* CalledProcessError, which main turns into sys.exit(1)
AfterCommand(cmd, returncode, started2) ==
    IF returncode = 0
    THEN [run EXCEPT !.commands = Append(@, cmd), !.started = started2,
                     !.pc = @ + 1]
    ELSE [run EXCEPT !.commands = Append(@, cmd), !.exited = TRUE,
                     !.exit_code = 1]

StepFrame ==
    /\ op' = op
    /\ result' = result
    /\ UNCHANGED <<memory, compression_threshold, max_memory_size, clock,
                   appended, pre, local_models, cloud_models, concVars, env_file>>

\* subprocess.run(['docker', 'compose', 'pull'], check=True)
ComposePull(returncode) ==
    /\ Running
    /\ CurrentStep.kind = "pull_images"
    /\ run' = AfterCommand(<<"docker", "compose", "pull">>, returncode, run.started)
    /\ StepFrame

\* subprocess.run(compose_cmd + ['up', '-d', service], check=True)
ComposeUp(returncode) ==
    /\ Running
    /\ CurrentStep.kind = "up"
    /\ LET service == CurrentStep.service
           cmd == ComposeCmd(run.environment, run.gpu_profile) \o <<"up", "-d">>
                  \o (IF service = None THEN <<>> ELSE <<service>>)
       IN run' = AfterCommand(cmd, returncode, Append(run.started, service))
    /\ StepFrame

\* one turn of the loop of wait_for_service: connect_ex, then return True or sleep
WaitPoll(connect_result) ==
    /\ Running
    /\ CurrentStep.kind = "wait"
    /\ run.polls < MaxPolls
    /\ run' = IF connect_result = 0
              THEN [run EXCEPT !.accepting = @ \cup {CurrentStep.name},
                               !.polls = 0, !.pc = @ + 1]
              ELSE [run EXCEPT !.polls = @ + 1]
    /\ StepFrame

\* the timeout of wait_for_service: it returns False and the caller goes on
WaitTimeout ==
    /\ Running
    /\ CurrentStep.kind = "wait"
    /\ run.polls = MaxPolls
    /\ run' = [run EXCEPT !.timed_out = @ \cup {CurrentStep.name},
                          !.polls = 0, !.pc = @ + 1]
    /\ StepFrame

\* pull_models: a failed or timed-out pull is reported and passed over
PullModels(returncodes) ==
    /\ Running
    /\ CurrentStep.kind = "pull_models"
    /\ run' = [run EXCEPT
                  !.pulled = {m \in DOMAIN returncodes : returncodes[m] = 0},
                  !.pc = @ + 1]
    /\ StepFrame

\* show_status, after which main returns
ShowStatus ==
    /\ Running
    /\ CurrentStep.kind = "status"
    /\ run' = [run EXCEPT !.exited = TRUE, !.exit_code = 0, !.pc = @ + 1]
    /\ StepFrame

StartInit ==
    /\ threads = <<>>
    /\ banks = <<>>
    /\ hist = <<>>
    /\ env_file = <<>>
    /\ memory = <<>>
    /\ compression_threshold = 10
    /\ max_memory_size = 100
    /\ clock = 0
    /\ appended = <<>>
    /\ pre = <<>>
    /\ local_models = <<"llama3.1:8b">>
    /\ cloud_models = <<"gpt-4o-mini">>
    /\ op = "init"
    /\ result = None
    /\ \E environment \in {"private", "public"}, gpu_profile \in {"nvidia", "cpu"},
          no_pull \in BOOLEAN :
          run = [environment |-> environment, gpu_profile |-> gpu_profile,
                 steps |-> MainSteps(no_pull), pc |-> 1, polls |-> 0,
                 commands |-> <<>>, started |-> <<>>, accepting |-> {},
                 timed_out |-> {}, pulled |-> {}, exited |-> FALSE,
                 exit_code |-> 0]

StartNext ==
    \/ \E returncode \in {0, 1} : ComposePull(returncode)
    \/ \E returncode \in {0, 1} : ComposeUp(returncode)
    \/ \E connect_result \in {0, 111} : WaitPoll(connect_result)
    \/ WaitTimeout
    \/ \E returncodes \in [{"llama3.1:8b", "nomic-embed-text"} -> {0, 1}] :
          PullModels(returncodes)
    \/ ShowStatus

StartSpec == StartInit /\ [][StartNext]_vars

\* ------------------------------------- start_services.py: the .env file
\* A line is a sequence of pieces of text: " " is white space, "#" and "="
\* are those characters, "your_" is that prefix, and any other piece is text
\* without white space, "#" or "=" that does not begin with "your_".
RECURSIVE LStrip(_)
LStrip(line) ==
    IF line # <<>> /\ IsSpace(Head(line)) THEN LStrip(Tail(line)) ELSE line

RECURSIVE RStrip(_)
RStrip(line) ==
    IF line # <<>> /\ IsSpace(line[Len(line)])
    THEN RStrip(SubSeq(line, 1, Len(line) - 1))
    ELSE line

\* str.strip()
Strip(line) == RStrip(LStrip(line))

\* line.split('=', 1)
SplitOnce(line) ==
    LET i == CHOOSE j \in DOMAIN line :
                 line[j] = "=" /\ \A k \in 1..(j - 1) : line[k] # "="
    IN [key |-> SubSeq(line, 1, i - 1), value |-> SubSeq(line, i + 1, Len(line))]

\* a dict in insertion order: entries of key and value
HasKey(d, key) == \E i \in DOMAIN d : d[i].key = key

EnvGet(d, key, default) ==
    IF HasKey(d, key) THEN d[CHOOSE i \in DOMAIN d : d[i].key = key].value
    ELSE default

\* d[key] = value
EnvSet(d, key, value) ==
    IF HasKey(d, key)
    THEN [i \in DOMAIN d |-> IF d[i].key = key THEN [key |-> key, value |-> value]
                                              ELSE d[i]]
    ELSE Append(d, [key |-> key, value |-> value])

RECURSIVE LoadLines(_, _)
LoadLines(lines, env_vars) ==
    IF lines = <<>> THEN env_vars
    ELSE LET line == Strip(Head(lines))
         IN IF line # <<>> /\ line[1] # "#" /\ "=" \in Range(line)
            THEN LoadLines(Tail(lines),
                           EnvSet(env_vars, SplitOnce(line).key, SplitOnce(line).value))
            ELSE LoadLines(Tail(lines), env_vars)

\* load_environment
LoadEnvironment(file) == IF file.exists THEN LoadLines(file.lines, <<>>) ELSE <<>>

\* generate_secrets: the keys in the order of the dict; random is what the
\* generator draws, and the two Langfuse keys carry their prefix
SecretKeys ==
    << <<"POSTGRES_PASSWORD">>, <<"NEO4J_PASSWORD">>, <<"N8N_BASIC_AUTH_PASSWORD">>,
       <<"WEBUI_SECRET_KEY">>, <<"LANGFUSE_SECRET_KEY">>, <<"LANGFUSE_PUBLIC_KEY">>,
       <<"LANGFUSE_SALT">>, <<"JWT_SECRET">>, <<"ENCRYPTION_KEY">> >>

GenerateSecrets(random) ==
    [i \in DOMAIN SecretKeys |->
        [key |-> SecretKeys[i],
         value |-> CASE SecretKeys[i] = <<"LANGFUSE_SECRET_KEY">> -> <<"sk-lf-", random>>
                     [] SecretKeys[i] = <<"LANGFUSE_PUBLIC_KEY">> -> <<"pk-lf-", random>>
                     [] OTHER -> <<random>>]]

\* variant: a secret is generated whatever the file holds
SecretMissing_always(env_vars, key) == TRUE

\* key not in env_vars or not env_vars[key] or env_vars[key].startswith('your_')
SecretMissing(env_vars, key) ==
    \/ ~HasKey(env_vars, key)
    \/ EnvGet(env_vars, key, <<>>) = <<>>
    \/ EnvGet(env_vars, key, <<>>)[1] = "your_"

\* the loop over secrets.items(): the dict and the updated flag
RECURSIVE FillSecrets(_, _, _, _)
FillSecrets(secrets, i, env_vars, updated) ==
    IF i > Len(secrets) THEN [env_vars |-> env_vars, updated |-> updated]
    ELSE IF SecretMissing(env_vars, secrets[i].key)
         THEN FillSecrets(secrets, i + 1,
                          EnvSet(env_vars, secrets[i].key, secrets[i].value), TRUE)
         ELSE FillSecrets(secrets, i + 1, env_vars, updated)

\* the file setup_environment writes
WrittenFile(env_vars) ==
    [exists |-> TRUE,
     lines |-> << <<"#", " ", "LLM", " ", "Orchestrator", " ", "Configuration">>,
                  <<"#", " ", "Auto-generated", " ", "and", " ", "updated", " ",
                    "by", " ", "start_services.py">>,
                  <<>> >>
               \o [i \in DOMAIN env_vars |->
                      env_vars[i].key \o <<"=">> \o env_vars[i].value]]

GpuKey == <<"GPU_PROFILE">>
EnvironmentKey == <<"ENVIRONMENT">>

\* an argument left out (None) is the empty text: both are false in a test
NoArgument == <<>>

\* setup_environment: the dict it returns, whether it wrote, and the file
SetupOutcome(file, gpu_arg, environment_arg, detected, random) ==
    LET loaded == LoadEnvironment(file)
        gpu_profile == IF gpu_arg = NoArgument
                       THEN EnvGet(loaded, GpuKey, detected) ELSE gpu_arg
        environment == IF environment_arg = NoArgument
                       THEN EnvGet(loaded, EnvironmentKey, <<"private">>)
                       ELSE environment_arg
        filled == FillSecrets(GenerateSecrets(random), 1, loaded, FALSE)
        gpu_differs == ~HasKey(filled.env_vars, GpuKey)
                       \/ EnvGet(filled.env_vars, GpuKey, <<>>) # gpu_profile
        with_gpu == IF gpu_differs THEN EnvSet(filled.env_vars, GpuKey, gpu_profile)
                                   ELSE filled.env_vars
        env_differs == ~HasKey(with_gpu, EnvironmentKey)
                       \/ EnvGet(with_gpu, EnvironmentKey, <<>>) # environment
        env_vars == IF env_differs THEN EnvSet(with_gpu, EnvironmentKey, environment)
                                   ELSE with_gpu
        updated == filled.updated \/ gpu_differs \/ env_differs
    IN [env_vars |-> env_vars, updated |-> updated,
        file |-> IF updated THEN WrittenFile(env_vars) ELSE file]

SetupEnvironment(detected, random) ==
    /\ clock < MaxRuns
    /\ LET out == SetupOutcome(env_file, run.gpu, run.environment, detected, random)
       IN /\ env_file' = out.file
          /\ result' = [env_vars |-> out.env_vars, updated |-> out.updated,
                        file_before |-> env_file]
    /\ clock' = clock + 1
    /\ op' = "setup_environment"
    /\ UNCHANGED <<memory, compression_threshold, max_memory_size, appended,
                   pre, local_models, cloud_models, concVars, run>>

\* the lines a .env file may hold before the first call
EnvLines ==
    { <<"#", " ", "note">>,
      <<"POSTGRES_PASSWORD", "=", "kept">>,
      <<"POSTGRES_PASSWORD", "=", "your_", "password">>,
      <<"JWT_SECRET", "=">>,
      <<"GPU_PROFILE", "=", "amd">>,
      <<"ENVIRONMENT", "=", "public">>,
      <<" ", "FOO", "=", "a", "=", "b", " ">>,
      <<"NOEQUALS">> }

EnvFiles ==
    { [exists |-> FALSE, lines |-> <<>>] }
    \cup { [exists |-> TRUE, lines |-> ls] : ls \in SeqsUpTo(EnvLines, MaxLines) }

SetupInit ==
    /\ threads = <<>>
    /\ banks = <<>>
    /\ hist = <<>>
    /\ env_file \in EnvFiles
    /\ run \in [gpu : {NoArgument, <<"nvidia">>},
                 environment : {NoArgument, <<"private">>}]
    /\ memory = <<>>
    /\ compression_threshold = 10
    /\ max_memory_size = 100
    /\ clock = 0
    /\ appended = <<>>
    /\ pre = <<>>
    /\ local_models = <<"llama3.1:8b">>
    /\ cloud_models = <<"gpt-4o-mini">>
    /\ op = "init"
    /\ result = None

SetupNext ==
    \E detected \in {<<"nvidia">>, <<"amd">>, <<"cpu">>}, random \in {"r1", "r2"} :
        SetupEnvironment(detected, random)

SetupSpec == SetupInit /\ [][SetupNext]_vars

\* ------------------------------------------------------------ properties
IsSummary(msg) == msg.role = "summary"
IsRecord(msg) == msg.role = "memory"
IsInteraction(content) == "query" \in DOMAIN content

SummaryIndexes(mem) == {i \in DOMAIN mem : IsSummary(mem[i])}
RecordIndexes(mem) == {i \in DOMAIN mem : IsRecord(mem[i])}

\* the last add_interaction ran a compaction that rebuilt the log
Folded ==
    /\ Len(pre) > max_memory_size
    /\ Len(pre) > compression_threshold

\* the query of a stored interaction shares a token with the asked query
Matches(query, content) ==
    \E w \in WordSet(query) : w \in WordSet(content.query)

Reverse(s) == [i \in 1..Len(s) |-> s[Len(s) + 1 - i]]

Retrieved == op = "retrieve_relevant_context"

\* C1: with compression_threshold >= 1, after any sequence of appends the log
\* is at most max(max_memory_size, compression_threshold + 1) long when
\* add_interaction has returned.
C1_LengthBound ==
    compression_threshold >= 1
    => Len(memory) <= Max(max_memory_size, compression_threshold + 1)

C1_Witness ==
    /\ compression_threshold >= 1
    /\ Folded
    /\ compression_threshold + 1 > max_memory_size
    /\ Len(memory) = compression_threshold + 1

\* C2: with compression_threshold >= 1, when an append leaves the log longer
\* than both max_memory_size and compression_threshold, add_interaction
\* returns a log made of one summary followed by exactly the
\* compression_threshold most recently appended interactions, unchanged and
\* in arrival order.
C2_RebuiltLog ==
    (compression_threshold >= 1 /\ Folded)
    => /\ Len(memory) = compression_threshold + 1
       /\ SummaryIndexes(memory) = {1}
       /\ \A i \in 1..compression_threshold :
             memory[i + 1] =
                Msg(appended[Len(appended) - compression_threshold + i], "memory")

C2_Witness ==
    /\ compression_threshold = 2
    /\ Folded
    /\ IsSummary(pre[1])
    /\ Len(memory) = 3
    /\ memory[2].content = appended[Len(appended) - 1]
    /\ memory[3].content = appended[Len(appended)]

\* C3: with compression_threshold >= 1, every reachable log holds at most one
\* summary, the summary is the first entry, and the other entries are
\* interactions in arrival order.
C3_LogShape ==
    compression_threshold >= 1
    => /\ SummaryIndexes(memory) \subseteq {1}
       /\ \A i \in RecordIndexes(memory) :
             /\ memory[i].content.timestamp \in 1..Len(appended)
             /\ memory[i].content = appended[memory[i].content.timestamp]
       /\ \A i, j \in RecordIndexes(memory) :
             i < j => memory[i].content.timestamp < memory[j].content.timestamp

C3_Witness ==
    /\ compression_threshold >= 1
    /\ Folded
    /\ IsSummary(pre[1])
    /\ SummaryIndexes(memory) = {1}
    /\ Len(memory) >= 3

\* C4 as stated: with max_memory_size >= 1 and compression_threshold >= 1
\* (compression_threshold >= max_memory_size included), the log is never
\* longer than max_memory_size once add_interaction has returned.
C4_Original ==
    (max_memory_size >= 1 /\ compression_threshold >= 1)
    => Len(memory) <= max_memory_size

\* C4 amended: with 1 <= compression_threshold < max_memory_size the log is
\* never longer than max_memory_size once add_interaction has returned.
C4_CeilingWhenThresholdBelow ==
    (compression_threshold >= 1 /\ compression_threshold < max_memory_size)
    => Len(memory) <= max_memory_size

C4_Witness ==
    /\ compression_threshold >= 1
    /\ compression_threshold < max_memory_size
    /\ Folded
    /\ Len(pre) = max_memory_size + 1
    /\ Len(memory) <= max_memory_size

\* C5: in every compaction, second and later ones included, the new
\* summary's interaction count equals the number of interactions folded.
C5_CountIsFoldedRecords ==
    Folded
    => memory[1].content.period =
          Cardinality(RecordIndexes(OldMemories(pre, compression_threshold)))

\* C6: retrieve_relevant_context returns at most max_items entries, for
\* every max_items >= 0.
C6_RetrievalCap ==
    Retrieved => Len(result.items) <= result.max_items

\* C7: when the log holds a summary and max_items >= 1, the summary is the
\* first entry of the result (stated for compression_threshold >= 1, where
\* the log holds at most one summary).
C7_SummaryFirst ==
    (/\ Retrieved
     /\ compression_threshold >= 1
     /\ SummaryIndexes(memory) # {}
     /\ result.max_items >= 1)
    => /\ result.items # <<>>
       /\ result.items[1] = memory[1].content

\* C8: the interactions retrieve_relevant_context returns are the newest
\* matching ones: each shares a token with the query, they are ordered
\* newest first, and no matching interaction newer than a returned one is
\* left out.
NewestMatches(mem, query) ==
    LET Hit(msg) == IsRecord(msg) /\ Matches(query, msg.content)
        hits == SelectSeq(mem, Hit)
    IN Reverse([i \in 1..Len(hits) |-> hits[i].content])

C8_NewestMatching ==
    Retrieved
    => LET got == SelectSeq(result.items, IsInteraction)
           newest == NewestMatches(memory, result.query)
       IN /\ Len(got) <= Len(newest)
          /\ got = SubSeq(newest, 1, Len(got))

C8_Witness ==
    /\ Retrieved
    /\ \E i, j, k \in RecordIndexes(memory) :
          /\ i < j /\ j < k
          /\ ~Matches(result.query, memory[j].content)
          /\ result.items = <<memory[k].content, memory[i].content>>

Routed == op = "route_query"

IsRoutingDecision(d) ==
    /\ DOMAIN d = {"raised", "model", "reasoning", "confidence",
                   "estimated_cost", "estimated_latency"}
    /\ d.raised = None
    /\ d.model # None
    /\ d.reasoning # <<>>
    /\ d.estimated_cost >= 0
    /\ d.estimated_latency > 0

C10_RouteNeverFails == Routed => IsRoutingDecision(result.outcome)

C10_Witness ==
    /\ Routed
    /\ local_models = <<>>
    /\ cloud_models # <<>>
    /\ \A i \in DOMAIN cloud_models : cloud_models[i] \notin DOMAIN ModelInfo
    /\ result.outcome.raised = None
    /\ result.outcome.model = "gpt-4o-mini"

\* the catalog profiles named in the local or the cloud list
AvailableProfiles ==
    {m \in Range(ModelNames) : m \in Range(local_models) \/ m \in Range(cloud_models)}

CatalogIndex(m) == CHOOSE i \in DOMAIN ModelNames : ModelNames[i] = m

\* total score of profile m for the routed call, in units of 0.0001
TotalOf(m) ==
    Score(ModelInfo[m], AnalyzeQueryComplexity(result.query),
          UserPrefs(result.user_preferences))

FallbackTrace == << <<"Fallback to default model", 0>> >>

\* C11: with non-negative weights route_query returns the available catalog
\* profile of maximal total, the confidence is that total, and among profiles
\* of equal maximal total the earliest of the catalog is returned.
C11_MaximalTotal ==
    (Routed /\ AvailableProfiles # {})
    => LET d == result.outcome
       IN /\ d.model \in AvailableProfiles
          /\ d.confidence = TotalOf(d.model)
          /\ \A m \in AvailableProfiles :
                /\ TotalOf(m) <= d.confidence
                /\ TotalOf(m) = d.confidence
                   => CatalogIndex(d.model) <= CatalogIndex(m)

C11_Witness ==
    /\ Routed
    /\ local_models = <<"codellama:13b", "llama3.1:8b">>
    /\ cloud_models = <<"gpt-4o-mini", "llama3.1:70b">>
    /\ result.user_preferences =
          [cost_priority |-> 10, speed_priority |-> 0, quality_priority |-> 0]
    /\ TotalOf("codellama:13b") = TotalOf("llama3.1:8b")
    /\ result.outcome.model = "llama3.1:8b"
    /\ result.outcome.confidence = 10000

\* C12: with non-negative weights route_query takes the fallback path exactly
\* when no catalog profile is named in either availability list; it then
\* returns the first entry of the local list if there is one, else
\* 'gpt-4o-mini', and the reasoning says that the fallback was taken.
C12_Fallback ==
    Routed
    => LET d == result.outcome
       IN /\ (d.reasoning = FallbackTrace) <=> (AvailableProfiles = {})
          /\ AvailableProfiles = {}
             => d.model = IF Len(local_models) > 0 THEN local_models[1]
                          ELSE "gpt-4o-mini"

C12_Witness ==
    /\ Routed
    /\ local_models = <<"unlisted-local", "unlisted-local">>
    /\ cloud_models = <<"unlisted-cloud">>
    /\ result.outcome.model = "unlisted-local"
    /\ result.outcome.reasoning = FallbackTrace

\* C13: the quality score of a profile is above the base 0.5 only when a
\* signal of the query exceeds its threshold and the profile has the matching
\* capability, and one boost at most is applied (the first of code,
\* multimodal, complex); for a query with a multimodal keyword and no
\* available multimodal profile every scored profile has quality 0.5 and the
\* winner is the winner of a query without keyword hits.
ExpectedQuality(info, analysis) ==
    CASE analysis.code_requirement > 5 /\ "code" \in info.capabilities -> 800
      [] ~(analysis.code_requirement > 5 /\ "code" \in info.capabilities)
         /\ analysis.multimodal_requirement > 5
         /\ "multimodal" \in info.capabilities -> 900
      [] ~(analysis.code_requirement > 5 /\ "code" \in info.capabilities)
         /\ ~(analysis.multimodal_requirement > 5
              /\ "multimodal" \in info.capabilities)
         /\ analysis.general_complexity > 7
         /\ "complex" \in info.capabilities -> 800
      [] OTHER -> 500

HasMultimodalKeyword(query) == AnyKeyword(LowerStr(query), MultimodalKeywords)

C13_QualityBoost ==
    Routed
    => LET analysis == AnalyzeQueryComplexity(result.query)
           d == result.outcome
       IN /\ \A m \in Range(ModelNames) :
                QualityScore(ModelInfo[m], analysis)
                   = ExpectedQuality(ModelInfo[m], analysis)
          /\ AvailableProfiles # {}
             => d.reasoning[3] =
                   <<"Quality score", ExpectedQuality(ModelInfo[d.model], analysis)>>
          /\ (/\ HasMultimodalKeyword(result.query)
              /\ \A m \in AvailableProfiles :
                    "multimodal" \notin ModelInfo[m].capabilities)
             => /\ \A m \in AvailableProfiles :
                      QualityScore(ModelInfo[m], analysis) = 500
                /\ d.model = RouteOutcome(RQPlain, result.user_preferences,
                                          local_models, cloud_models).model

C13_Witness ==
    /\ Routed
    /\ result.query = RQChart
    /\ local_models = <<"llama3.1:8b">>
    /\ cloud_models = <<"llama3.1:70b">>
    /\ result.outcome.reasoning[3] = <<"Quality score", 500>>
    /\ result.outcome.model = "llama3.1:8b"

\* C16: in every reachable log state get_stats reports the number of
\* interactions in the log, the sum of their costs, usage counts per backend
\* that add up to the number of interactions, and a log size that is the
\* number of interactions plus one exactly when a summary is present.
RECURSIVE SumOver(_, _)
SumOver(f, keys) ==
    IF keys = {} THEN 0
    ELSE LET k == CHOOSE x \in keys : TRUE
         IN f[k] + SumOver(f, keys \ {k})

C16_Stats ==
    op = "get_stats"
    => LET recs == RecordIndexes(memory)
           costs == [i \in recs |-> memory[i].content.cost]
       IN /\ result.total_interactions = Cardinality(recs)
          /\ result.total_cost = SumOver(costs, recs)
          /\ SumOver(result.model_usage, DOMAIN result.model_usage)
                = result.total_interactions
          /\ \A m \in DOMAIN result.model_usage :
                result.model_usage[m]
                   = Cardinality({i \in recs : memory[i].content.model_used = m})
          /\ result.memory_size
                = result.total_interactions
                  + (IF SummaryIndexes(memory) # {} THEN 1 ELSE 0)

\* C20: for a zero-cost profile and a paid profile of equal latency and equal
\* quality score, total(zero-cost) - total(paid) does not decrease when
\* cost_priority is raised and the other two weights are kept.
C20_CostPriorityMonotone ==
    (/\ op = "score_profiles"
     /\ result.free.cost_per_token = 0
     /\ result.paid.cost_per_token > 0
     /\ result.free.avg_latency = result.paid.avg_latency
     /\ QualityScore(result.free, AnalyzeQueryComplexity(result.query))
           = QualityScore(result.paid, AnalyzeQueryComplexity(result.query)))
    => \A step \in 1..5 :
          LET raised == [result.user_prefs EXCEPT
                            !.cost_priority = result.user_prefs.cost_priority + step]
              analysis == AnalyzeQueryComplexity(result.query)
          IN Score(result.free, analysis, raised) - Score(result.paid, analysis, raised)
                >= result.total_free - result.total_paid

C20_Witness ==
    /\ op = "score_profiles"
    /\ result.paid.cost_per_token = 500
    /\ result.query = RQChart
    /\ "multimodal" \in result.free.capabilities
    /\ result.user_prefs.cost_priority = 5
    /\ result.user_prefs.quality_priority = 1
    /\ result.total_free - result.total_paid = 5000

Replied == op = "reply"

\* C14: when the execution step of a request fails, the failure reaches the
\* caller of reply and the log is what it was before the request: no
\* interaction is appended for the failed execution.
C14_FailureLeavesLog ==
    (Replied /\ ~result.execution_ok)
    => /\ result.raised = "ExecutionError"
       /\ memory = result.memory_before
       /\ appended = result.appended_before
       /\ "append" \notin Range(result.trace)

C14_Witness ==
    /\ Replied
    /\ ~result.execution_ok
    /\ result.raised = "ExecutionError"
    /\ result.trace = <<"retrieve", "route">>
    /\ Len(memory) >= 2
    /\ memory = result.memory_before

\* C15: a successful request runs retrieve, route, execute, append in that
\* order and appends exactly one interaction, whose backend and cost are the
\* model and the estimated cost of the routing decision; the context
\* retrieved for the request does not contain the request's own record.
C15_RequestSequence ==
    (Replied /\ result.raised = None)
    => LET own == appended[Len(appended)]
           before == {result.memory_before[i].content :
                         i \in RecordIndexes(result.memory_before)}
       IN /\ result.trace = <<"retrieve", "route", "execute", "append">>
          /\ appended = Append(result.appended_before, own)
          /\ pre = Append(result.memory_before, Msg(own, "memory"))
          /\ memory[Len(memory)] = Msg(own, "memory")
          /\ own \notin before
          /\ own.query = result.query
          /\ own.model_used = result.routing_decision.model
          /\ own.cost = result.routing_decision.estimated_cost
          /\ own.cost = InfoGet(own.model_used, "cost_per_token", 0)
                           * Len(Split(result.query))
          /\ \A k \in DOMAIN result.context : result.context[k] # own

C15_Witness ==
    /\ Replied
    /\ result.raised = None
    /\ local_models = <<>>
    /\ result.query = RQChart
    /\ appended[Len(appended)].model_used = "gpt-4o-mini"
    /\ appended[Len(appended)].cost = 30
    /\ Len(result.context) >= 2

\* C17: when requests are served concurrently the append-then-compact
\* sequences of two add_interaction calls do not interleave, so that once the
\* calls have returned every appended interaction is in the log or was folded
\* into a summary.
C17_NoAppendLost ==
    (threads # <<>> /\ AtRest(threads))
    => \A i \in DOMAIN appended :
          \/ \E k \in RecordIndexes(memory) : memory[k].content = appended[i]
          \/ appended[i] \in hist.folded

\* C18: a retrieve_relevant_context call that runs concurrently with the
\* add_interaction calls of one caller scans a complete log: a log that stood
\* between two calls (before the append, or after the append and its
\* compaction), or such a log with the appended record, never a log that is
\* being rebuilt.
C18_ConsistentSnapshot ==
    (/\ threads # <<>>
     /\ threads[Reader].pc = "done"
     /\ threads[Reader].closed)
    => LET scanned == threads[Reader].scanned
       IN \/ scanned \in threads[Reader].rests
          \/ /\ scanned # <<>>
             /\ scanned[Len(scanned)].role = "memory"
             /\ SubSeq(scanned, 1, Len(scanned) - 1) \in threads[Reader].rests

\* C21: cost is conserved across compactions: the total_cost of the
\* summaries in the log plus the costs of the interactions still in the log
\* equals the sum of the costs of all interactions ever appended.
C21_CostConserved ==
    LET sums == SummaryIndexes(memory)
        recs == RecordIndexes(memory)
        all == DOMAIN appended
    IN SumOver([i \in sums |-> memory[i].content.total_cost], sums)
         + SumOver([i \in recs |-> memory[i].content.cost], recs)
       = SumOver([i \in all |-> appended[i].cost], all)

\* C22: with compression_threshold = 0 a triggered compaction retains no
\* interaction: the rebuilt log is the new summary only, and the log never
\* holds more than one summary.
C22_ThresholdZeroFoldsAll ==
    compression_threshold = 0
    => /\ Cardinality(SummaryIndexes(memory)) <= 1
       /\ Folded => (Len(memory) = 1 /\ IsSummary(memory[1]))

\* the words of length > 4 of the entries' lower-cased queries, each once,
\* in order of first appearance
RECURSIVE Distinct(_)
Distinct(ws) ==
    IF ws = <<>> THEN <<>>
    ELSE LET front == Distinct(SubSeq(ws, 1, Len(ws) - 1))
             w == ws[Len(ws)]
         IN IF w \in Range(front) THEN front ELSE Append(front, w)

RECURSIVE LongWords(_)
LongWords(memories) ==
    IF memories = <<>> THEN <<>>
    ELSE LET ws == Split(LowerStr(DictGet(Head(memories).content, "query", <<>>)))
         IN SelectSeq(ws, LAMBDA w : Len(w) > 4) \o LongWords(Tail(memories))

FirstAppearance(memories) ==
    LET ws == Distinct(LongWords(memories))
    IN SubSeq(ws, 1, Min(10, Len(ws)))

\* C23: the main_topics of a summary are the first (up to) 10 distinct words
\* of length > 4 of the folded entries' lower-cased queries, in order of
\* first appearance.
C23_TopicsInOrder ==
    op = "_create_summary" => result.main_topics = FirstAppearance(memory)

\* C24: for every query the analyzer's code_requirement and
\* general_complexity are at most 0.5, so neither the code boost nor the
\* complex boost is applied: a profile's quality score is 0.5, or 0.9 when the
\* query has a multimodal keyword and the profile has the capability.
C24_OnlyMultimodalBoost ==
    op = "quality_score"
    => /\ result.analysis.code_requirement <= 5
       /\ result.analysis.general_complexity <= 5
       /\ result.quality_score =
             IF /\ HasMultimodalKeyword(result.query)
                /\ "multimodal" \in ModelInfo[result.model].capabilities
             THEN 900 ELSE 500

C24_Witness ==
    /\ op = "quality_score"
    /\ Len(result.query) > LongQuery
    /\ result.analysis.general_complexity = 5
    /\ result.analysis.code_requirement = 5
    /\ "code" \in ModelInfo[result.model].capabilities
    /\ result.quality_score = 500

\* C25: start_services starts services in dependency order and only on
\* readiness: Ollama is started only after supabase-db, qdrant and neo4j were
\* started and PostgreSQL, Qdrant and Neo4j accepted a connection; the
\* remaining services are started only after Ollama accepted a connection;
\* and when a compose command fails no later step is run.
C25_StartOnReadiness ==
    run # <<>>
    => /\ "ollama" \in Range(run.started)
          => /\ {"supabase-db", "qdrant", "neo4j"} \subseteq Range(run.started)
             /\ {"PostgreSQL", "Qdrant", "Neo4j"} \subseteq run.accepting
       /\ None \in Range(run.started)
          => /\ "ollama" \in Range(run.started)
             /\ "Ollama" \in run.accepting
       /\ (run.exited /\ run.exit_code = 1)
          => /\ run.pc <= Len(run.steps)
             /\ run.steps[run.pc].kind \in {"up", "pull_images"}
             /\ Len(run.commands)
                  = Cardinality({i \in 1..run.pc :
                                   run.steps[i].kind \in {"up", "pull_images"}})

\* the keys of a dict
EnvKeys(d) == {d[i].key : i \in DOMAIN d}

\* C26: setup_environment only generates missing secrets: a secret key
\* present in the file with a non-empty value that does not start with
\* "your_" keeps its value, every other key except GPU_PROFILE and ENVIRONMENT
\* keeps its value, and a second run with the same arguments changes nothing
\* and does not rewrite the file.
C26_OnlyMissingSecrets ==
    op = "setup_environment"
    => LET before == LoadEnvironment(result.file_before)
           after == result.env_vars
           now == LoadEnvironment(env_file)
           kept == {k \in EnvKeys(before) :
                      \/ k \notin Range(SecretKeys) \cup {GpuKey, EnvironmentKey}
                      \/ /\ k \in Range(SecretKeys)
                         /\ EnvGet(before, k, <<>>) # <<>>
                         /\ EnvGet(before, k, <<>>)[1] # "your_"}
       IN /\ \A k \in kept :
                /\ HasKey(after, k) /\ EnvGet(after, k, <<>>) = EnvGet(before, k, <<>>)
                /\ HasKey(now, k) /\ EnvGet(now, k, <<>>) = EnvGet(before, k, <<>>)
          /\ clock >= 2
             => /\ ~result.updated
                /\ env_file = result.file_before
                /\ after = before

C26_Witness ==
    /\ op = "setup_environment"
    /\ clock = 2
    /\ ~result.updated
    /\ EnvGet(result.env_vars, <<"POSTGRES_PASSWORD">>, <<>>) = <<"kept">>
    /\ EnvGet(result.env_vars, <<"JWT_SECRET">>, <<>>) \in {<<"r1">>, <<"r2">>}
    /\ EnvGet(result.env_vars, <<"FOO">>, <<>>) = <<"a", "=", "b">>
    /\ env_file.lines[1][1] = "#"

====
